---- MODULE Spec2Model ----
(***************************************************************************)
(* A model of tvdbpy: the TvDB API client (tvdbpy/tvdb.py) and its helper  *)
(* base class (tvdbpy/helpers.py).  The network is a server that may       *)
(* answer every GET with any response of Responses; the program is single  *)
(* threaded, so every public operation is one atomic action.               *)
(***************************************************************************)
EXTENDS Integers, Sequences, FiniteSets, TLC

(* ---------------------------------------------------------------------- *)
(* Bounds of the model                                                     *)
(* ---------------------------------------------------------------------- *)
\* how many Episode elements the largest document of the server holds
MaxEpisodeElems == 2
\* how many characters the enumerated texts of a list field (Actors) have
MaxTextLen == 3

(* ---------------------------------------------------------------------- *)
(* Values                                                                  *)
(* ---------------------------------------------------------------------- *)
\* Python's None in a text-valued slot; Str is "%s" % v
NoneS == "<None>"
Str(v) == IF v = NoneS THEN "None" ELSE v
\* Python's None in an int-valued slot (the ints of the model are >= 0)
NoneI == -1
\* Python's None in an object-reference slot; references are heap indices
NoRef == 0
\* the one TvDB client of a behaviour, as the value of an entity's _client
TheClient == 1

BaseApiUrl == <<"http://thetvdb.com", "/api/">>
BaseImageUrl == <<"http://thetvdb.com", "/banners/">>

ALL == "all"
DAY == "day"
WEEK == "week"
MONTH == "month"
SERIES == "series"
EPISODE == "episode"
BANNER == "banner"

\* str.lower() on the tag names the documents of the model use
Lower(tag) ==
    CASE tag = "Series" -> "series"
      [] tag = "Episode" -> "episode"
      [] tag = "Banner" -> "banner"
      [] tag = "Data" -> "data"
      [] OTHER -> tag

\* int(text): the decimal texts of the model, anything else is a ValueError
IntTable == ("0" :> 0) @@ ("1" :> 1) @@ ("2" :> 2)
IsIntText(s) == s \in DOMAIN IntTable

\* urlparse.urljoin(base, url) for a base <<host, directory>> and a url given
\* as its tokens: nothing (None or empty) gives the base, a url with a scheme
\* replaces the base, a rooted path replaces the base's path, a relative
\* path is appended to the base's directory
UrlJoin(base, url) ==
    IF url = <<>> THEN base
    ELSE IF Head(url) = "http://" THEN url
    ELSE IF Head(url) = "/" THEN <<base[1]>> \o url
    ELSE base \o url

(* ---------------------------------------------------------------------- *)
(* XML documents: the children of the root element, in document order      *)
(* ---------------------------------------------------------------------- *)
\* an element with no text and no children
El0 == [tag |-> "Data", text |-> NoneS, id |-> NoneS, seriesid |-> NoneS,
        season |-> NoneS, number |-> NoneS, banner |-> <<>>, poster |-> <<>>,
        filename |-> <<>>, path |-> <<>>, actors |-> <<>>]

SeriesEl(i, b) == [El0 EXCEPT !.tag = "Series", !.text = "\n", !.id = i, !.banner = b]
EpisodeEl(i, sid, s, n) ==
    [El0 EXCEPT !.tag = "Episode", !.text = "\n", !.id = i, !.seriesid = sid,
                !.season = s, !.number = n]
\* the elements of Updates.php: the element's own text is the id
IdEl(t, i) == [El0 EXCEPT !.tag = t, !.text = i]
\* the elements of updates_<timeframe>.xml
UpdateEl(t, i, sid, p) ==
    [El0 EXCEPT !.tag = t, !.text = "\n", !.id = i, !.seriesid = sid, !.path = p]

\* the texts of the i-th Episode element of a document: its id, its season
\* and its number (the third repeats the second's season and number)
EpisodeIds == <<"e1", "e2", "e3", "e4">>
SeasonTexts == <<"1", "2", "2", "0">>
NumberTexts == <<"1", "1", "1", "2">>
EpisodeN(i) == EpisodeEl(EpisodeIds[i], "s1", SeasonTexts[i], NumberTexts[i])

\* the text of a list field, character by character; an element's list field
\* is <<>> when the child is missing and <<text>> when it has a text
ListChars == {"|", "A", "B"}
ExampleText == <<"|", "A", "|", "B", "|", "C", "|">>
ListTexts == UNION {[1..n -> ListChars] : n \in 1..MaxTextLen} \cup {ExampleText}

DocEmpty == <<>>
DocSeries == <<SeriesEl("s1", <<"graphical/", "s1.jpg">>)>>
DocEpisode == <<EpisodeN(1)>>
\* a full series record: the Series and its episodes
DocFull == <<SeriesEl("s1", <<>>)>> \o [i \in 1..MaxEpisodeElems |-> EpisodeN(i)]
DocBadEpisode == <<SeriesEl("s1", <<>>), EpisodeEl("e1", "s1", "1", "x")>>
\* an answer of Updates.php, episodes and series interleaved
DocSince == [i \in 1..MaxEpisodeElems |-> IdEl("Episode", EpisodeIds[i])]
              \o <<IdEl("Series", "s1")>> \o <<IdEl("Episode", "e4")>>
              \o <<IdEl("Series", "s2")>>
DocUpdates == <<UpdateEl("Series", "s1", NoneS, <<>>),
                UpdateEl("Episode", "e1", "s1", <<>>),
                UpdateEl("Banner", NoneS, "s1", <<"posters/", "s1.jpg">>)>>

XmlDocs == {DocEmpty, DocSeries, DocEpisode, DocFull, DocBadEpisode, DocSince}
ArchiveDocs == {DocEmpty, DocSeries, DocFull, DocBadEpisode}

\* Element.findall('./<tag>'): the children with that tag, in document order
RECURSIVE FindAll(_, _)
FindAll(doc, tag) ==
    IF doc = <<>> THEN <<>>
    ELSE IF Head(doc).tag = tag THEN <<Head(doc)>> \o FindAll(Tail(doc), tag)
    ELSE FindAll(Tail(doc), tag)

\* Element.findall('./'): every child
FindAllChildren(doc) == doc

\* Element.find('./<tag>'): the first such child, as a sequence of 0 or 1 elements
Find(doc, tag) ==
    LET all == FindAll(doc, tag) IN IF all = <<>> THEN <<>> ELSE <<Head(all)>>

(* ---------------------------------------------------------------------- *)
(* HTTP responses                                                          *)
(* ---------------------------------------------------------------------- *)
TextXml == <<"text/", "xml">>
ApplicationZip == <<"application/", "zip">>

\* the content-type header: absent, or a text given by its tokens
NoHeader == [present |-> FALSE, value |-> <<>>]
Header(v) == [present |-> TRUE, value |-> v]

\* a body: an XML text, a zip archive with one member (its name given by its
\* tokens), or neither
XmlBody(d) == [fmt |-> "xml", member |-> <<>>, doc |-> d]
ZipBody(m, d) == [fmt |-> "zip", member |-> m, doc |-> d]
Garbage == [fmt |-> "garbage", member |-> <<>>, doc |-> <<>>]

Response(status, ctype, body) == [status |-> status, ctype |-> ctype, body |-> body]

\* every answer the server gives in the model: documents behind a status and
\* a header that let them through, and answers that do not get through
Responses ==
    {Response(200, Header(TextXml \o <<"; charset=utf-8">>), XmlBody(d)) : d \in XmlDocs}
      \cup {Response(200, Header(ApplicationZip), ZipBody(<<"en.xml">>, d)) :
                d \in ArchiveDocs}
      \cup {Response(200, Header(ApplicationZip),
                     ZipBody(<<"updates_", "month", ".xml">>, DocUpdates)),
            Response(200, Header(TextXml), Garbage),
            Response(200, Header(<<"text/", "plain">>), Garbage),
            Response(200, NoHeader, Garbage),
            Response(404, Header(TextXml), Garbage),
            Response(404, NoHeader, Garbage)}

(* ---------------------------------------------------------------------- *)
(* helpers.py: the transport and the decoders                              *)
(* ---------------------------------------------------------------------- *)
\* Python's "sub in s" for texts given by their tokens
Contains(sub, s) ==
    \E i \in 0..(Len(s) - Len(sub)) : SubSeq(s, i + 1, i + Len(sub)) = sub

\* requests' Response.ok: raise_for_status() raises for 400 <= status < 600
ResponseOk(status) == ~(400 <= status /\ status < 600)

\* requests.get(url, params=params), url = urljoin(_base_api_url, path)
Request(path, params) == [url |-> UrlJoin(BaseApiUrl, path), params |-> params]


\* BaseTvDB._get: one GET; the status is looked at first, then the header.
\* "content_type not in None" is a TypeError.  The record keeps what was
\* expected, what was sent and what came back.
Get(path, content_type, params, resp) ==
    [expect |-> content_type,
     sent |-> <<Request(path, params)>>,
     resp |-> resp,
     err |-> IF ~ResponseOk(resp.status) THEN "APIResponseError"
             ELSE IF ~resp.ctype.present THEN "TypeError"
             ELSE IF ~Contains(content_type, resp.ctype.value) THEN "APIResponseError"
             ELSE "",
     body |-> resp.body]

\* BaseTvDB._get_xml_data: [get, err, doc]
GetXmlData(path, params, resp) ==
    LET g == Get(path, TextXml, params, resp) IN
    IF g.err # "" THEN [get |-> g, err |-> g.err, doc |-> <<>>]
    ELSE IF g.body.fmt # "xml" THEN [get |-> g, err |-> "ParseError", doc |-> <<>>]
    ELSE [get |-> g, err |-> "", doc |-> g.body.doc]

\* BaseTvDB._get_compressed_data followed by ZipFile.read(member) and
\* ET.fromstring, as its two callers do: [get, err, doc]
GetCompressedMember(path, member, resp) ==
    LET g == Get(path, ApplicationZip, <<>>, resp) IN
    IF g.err # "" THEN [get |-> g, err |-> g.err, doc |-> <<>>]
    ELSE IF g.body.fmt # "zip" THEN [get |-> g, err |-> "BadZipfile", doc |-> <<>>]
    ELSE IF g.body.member # member THEN [get |-> g, err |-> "KeyError", doc |-> <<>>]
    ELSE [get |-> g, err |-> "", doc |-> g.body.doc]

(* ---------------------------------------------------------------------- *)
(* tvdb.py: the entities                                                   *)
(* ---------------------------------------------------------------------- *)
\* BaseTvDB._elem_value(xml_data, name, cast=int) on a text: None stays None
CastInt(text) == IF text = NoneS THEN NoneI ELSE IntTable[text]
CastFails(text) == text # NoneS /\ ~IsIntText(text)

\* str.split('|'): the pieces between the delimiters, in order; a text with
\* no delimiter (also the empty text) is one piece
RECURSIVE Split(_)
Split(t) ==
    IF \A i \in 1..Len(t) : t[i] # "|" THEN <<t>>
    ELSE LET i == CHOOSE j \in 1..Len(t) :
                      t[j] = "|" /\ \A k \in 1..(j - 1) : t[k] # "|"
         IN  <<SubSeq(t, 1, i - 1)>> \o Split(SubSeq(t, i + 1, Len(t)))

\* BaseTvDB._elem_list_value: None (<<>>) for a missing or empty text, else
\* <<list>> with list = data[1:-1].split('|')
ElemListValue(data) ==
    IF data = <<>> \/ data[1] = <<>> THEN <<>>
    ELSE <<Split(SubSeq(data[1], 2, Len(data[1]) - 1))>>

\* SearchResult(xml_data, client)
NewSearchResult(el, client) == [id |-> el.id, banner |-> el.banner, client |-> client]

\* Series(xml_data, client): _seasons = None is the empty sequence, a loaded
\* _seasons is <<map>>; loads counts the assignments of a map to _seasons
NewSeries(el, client) ==
    [id |-> el.id, banner |-> el.banner, poster |-> el.poster,
     actors |-> ElemListValue(el.actors), client |-> client,
     seasons |-> <<>>, loads |-> 0]

\* Episode(xml_data, series, client); int() may raise ValueError
EpisodeFails(el) == CastFails(el.number) \/ CastFails(el.season)
NewEpisode(el, series, client) ==
    [id |-> el.id, series_id |-> el.seriesid, number |-> CastInt(el.number),
     season |-> CastInt(el.season), image |-> el.filename,
     series |-> series, client |-> client]

MetadataAttrs == {"series", "season", "path", "type", "format", "language", "timestamp"}

\* Update(xml_data, metadata, client): attrs are the attributes that exist
NewUpdate(el, metadata, client) ==
    [id |-> el.id, kind |-> Lower(el.tag),
     attrs |-> {"id", "kind"} \cup (IF metadata THEN MetadataAttrs ELSE {}),
     series |-> IF metadata THEN el.seriesid ELSE NoneS,
     path |-> IF metadata THEN el.path ELSE <<>>,
     client |-> client]

\* (mutant) id_only keeping the id of the (absent) id child
IdOnly_ChildId(el, client) == NewUpdate(el, FALSE, client)

\* Update.id_only(xml_data, client)
IdOnly(el, client) == [NewUpdate(el, FALSE, client) EXCEPT !.id = el.text]

(* ---------------------------------------------------------------------- *)
(* The heap, and what an operation gives back                              *)
(* ---------------------------------------------------------------------- *)
\* H = [series, episodes, results, updates]: the objects the caller holds.
\* Series and Episode objects are referred to by their index; the lists of
\* the last search and of the last update feed replace the earlier ones.
EmptyHeap == [series |-> <<>>, episodes |-> <<>>, results |-> <<>>, updates |-> <<>>]

RNone == [kind |-> "None", ref |-> NoRef, items |-> <<>>, url |-> <<>>]
RSeries(r) == [RNone EXCEPT !.kind = "Series", !.ref = r]
REpisode(r) == [RNone EXCEPT !.kind = "Episode", !.ref = r]
RList(k, n) == [RNone EXCEPT !.kind = k, !.items = [i \in 1..n |-> i]]
RUrl(u) == [RNone EXCEPT !.kind = "url", !.url = u]
\* a seasons map: the loads-th map assigned to series r's _seasons
RSeasons(r, gen) == [RNone EXCEPT !.kind = "seasons", !.ref = r, !.items = <<gen>>]
\* the inner map of series r's _seasons under a season number
RSeason(r, season) == [RNone EXCEPT !.kind = "season", !.ref = r, !.items = <<season>>]

\* an operation's outcome: the heap after it, the exception it raised ("" for
\* none), the _get calls it made, the client operations it called, its result
Out(H, err, gets, calls, result) ==
    [H |-> H, err |-> err, gets |-> gets, calls |-> calls, result |-> result]
Raise(H, err, gets, calls) == Out(H, err, gets, calls, RNone)

(* ---------------------------------------------------------------------- *)
(* tvdb.py: the derived URLs                                               *)
(* ---------------------------------------------------------------------- *)
\* BaseSeries.banner, of a SearchResult or a Series: "if self._banner" is
\* false for None (an empty element has no text, so there is no empty path)
BaseSeriesBanner(s) ==
    IF s.banner # <<>> THEN RUrl(UrlJoin(BaseImageUrl, s.banner)) ELSE RNone

\* Series.poster
SeriesPoster(s) ==
    IF s.poster # <<>> THEN RUrl(UrlJoin(BaseImageUrl, s.poster)) ELSE RNone

\* Episode.image
EpisodeImage(e) ==
    IF e.image # <<>> THEN RUrl(UrlJoin(BaseImageUrl, e.image)) ELSE RNone

(* ---------------------------------------------------------------------- *)
(* helpers.py / tvdb.py: parsing a response into entities                  *)
(* ---------------------------------------------------------------------- *)
\* (mutant) _parse_entry raising when the element is not there
ParseSeriesEntry_Strict(H, doc, gets) ==
    LET f == Find(doc, "Series") IN
    IF f = <<>> THEN Raise(H, "TvDBException", gets, <<>>)
    ELSE Out([H EXCEPT !.series = Append(@, NewSeries(f[1], TheClient))],
             "", gets, <<>>, RSeries(Len(H.series) + 1))

\* BaseTvDB._parse_entry(response, Series, './Series')
ParseSeriesEntry(H, doc, gets) ==
    LET f == Find(doc, "Series") IN
    IF f = <<>> THEN Out(H, "", gets, <<>>, RNone)
    ELSE Out([H EXCEPT !.series = Append(@, NewSeries(f[1], TheClient))],
             "", gets, <<>>, RSeries(Len(H.series) + 1))

\* BaseTvDB._parse_entry(response, Episode, './Episode')
ParseEpisodeEntry(H, doc, gets) ==
    LET f == Find(doc, "Episode") IN
    IF f = <<>> THEN Out(H, "", gets, <<>>, RNone)
    ELSE IF EpisodeFails(f[1]) THEN Raise(H, "ValueError", gets, <<>>)
    ELSE Out([H EXCEPT !.episodes = Append(@, NewEpisode(f[1], NoRef, TheClient))],
             "", gets, <<>>, REpisode(Len(H.episodes) + 1))

\* self._seasons[e.season][e.number] = e on a defaultdict(dict)
SetEpisode(map, season, number, ref) ==
    LET inner == IF season \in DOMAIN map THEN map[season] ELSE <<>> IN
    (season :> ((number :> ref) @@ inner)) @@ map

\* the loop of Series._load_episodes over the new episodes, the first of
\* which has reference first
RECURSIVE FillSeasons(_, _, _)
FillSeasons(map, eps, first) ==
    IF eps = <<>> THEN map
    ELSE FillSeasons(SetEpisode(map, Head(eps).season, Head(eps).number, first),
                     Tail(eps), first + 1)

\* (mutant) _load_episodes leaving the episodes' _series unset
LoadEpisodes_NoBackRef(H, sref, doc, gets) ==
    LET els == FindAll(doc, "Episode")
        eps == [i \in 1..Len(els) |-> NewEpisode(els[i], NoRef, TheClient)]
    IN  IF H.series[sref].client = NoRef THEN Raise(H, "AttributeError", gets, <<>>)
        ELSE IF \E i \in 1..Len(els) : EpisodeFails(els[i])
        THEN Raise(H, "ValueError", gets, <<>>)
        ELSE Out([H EXCEPT !.episodes = @ \o eps,
                           !.series[sref].seasons =
                               <<FillSeasons(<<>>, eps, Len(H.episodes) + 1)>>,
                           !.series[sref].loads = @ + 1],
                 "", gets, <<>>, RNone)

\* Series._load_episodes(data) from the parse on: every Episode is built
\* (with the client as its client), then _seasons is assigned and filled
LoadEpisodes(H, sref, doc, gets) ==
    LET els == FindAll(doc, "Episode")
        eps == [i \in 1..Len(els) |-> NewEpisode(els[i], sref, TheClient)]
    IN  IF H.series[sref].client = NoRef THEN Raise(H, "AttributeError", gets, <<>>)
        ELSE IF \E i \in 1..Len(els) : EpisodeFails(els[i])
        THEN Raise(H, "ValueError", gets, <<>>)
        ELSE Out([H EXCEPT !.episodes = @ \o eps,
                           !.series[sref].seasons =
                               <<FillSeasons(<<>>, eps, Len(H.episodes) + 1)>>,
                           !.series[sref].loads = @ + 1],
                 "", gets, <<>>, RNone)

(* ---------------------------------------------------------------------- *)
(* tvdb.py: the client                                                     *)
(* ---------------------------------------------------------------------- *)
\* (mutant) a decorator that lets every call through
ApiKeyMissing_Never(key) == FALSE

\* the test of the api_key_required decorator
ApiKeyMissing(key) == key = NoneS

\* (mutant) a timeframe list that lets an unknown word through
Timeframes_Lax == {DAY, WEEK, MONTH, ALL, "anything"}

Timeframes == {DAY, WEEK, MONTH, ALL}
Kinds == {SERIES, EPISODE, ALL}

\* TvDB._get_series_full_data: not decorated
GetSeriesFullData(key, series_id, resp) ==
    GetCompressedMember(<<Str(key), "/series/", Str(series_id), "/all/en.zip">>,
                        <<"en.xml">>, resp)

\* TvDB._parse_full_series: a Series object is always true
ParseFullSeries(H, doc, gets) ==
    LET o == ParseSeriesEntry(H, doc, gets) IN
    IF o.result.kind = "None" THEN o
    ELSE LET l == LoadEpisodes(o.H, o.result.ref, doc, gets) IN
         IF l.err # "" THEN Raise(H, l.err, gets, <<>>)
         ELSE Out(l.H, "", gets, <<>>, o.result)

\* TvDB.search
Search(H, title, resp) ==
    LET d == GetXmlData(<<"GetSeries.php">>, <<<<"seriesname", title>>>>, resp)
        els == FindAll(d.doc, "Series")
    IN  IF d.err # "" THEN Raise(H, d.err, <<d.get>>, <<>>)
        ELSE Out([H EXCEPT !.results =
                      [i \in 1..Len(els) |-> NewSearchResult(els[i], TheClient)]],
                 "", <<d.get>>, <<>>, RList("results", Len(els)))

\* TvDB.get_series_by_id
GetSeriesById(H, key, series_id, extended, resp) ==
    IF ApiKeyMissing(key) THEN Raise(H, "APIKeyRequiredError", <<>>, <<>>)
    ELSE IF extended
    THEN LET d == GetSeriesFullData(key, series_id, resp) IN
         IF d.err # "" THEN Raise(H, d.err, <<d.get>>, <<>>)
         ELSE ParseFullSeries(H, d.doc, <<d.get>>)
    ELSE LET d == GetXmlData(<<Str(key), "/series/", Str(series_id), "/en.xml">>,
                             <<>>, resp) IN
         IF d.err # "" THEN Raise(H, d.err, <<d.get>>, <<>>)
         ELSE ParseSeriesEntry(H, d.doc, <<d.get>>)

\* TvDB.get_episode_by_id
GetEpisodeById(H, key, episode_id, resp) ==
    IF ApiKeyMissing(key) THEN Raise(H, "APIKeyRequiredError", <<>>, <<>>)
    ELSE LET d == GetXmlData(<<Str(key), "/episodes/", Str(episode_id), "/en.xml">>,
                             <<>>, resp) IN
         IF d.err # "" THEN Raise(H, d.err, <<d.get>>, <<>>)
         ELSE ParseEpisodeEntry(H, d.doc, <<d.get>>)

\* TvDB.get_episode
GetEpisode(H, key, series_id, season, number, resp) ==
    IF ApiKeyMissing(key) THEN Raise(H, "APIKeyRequiredError", <<>>, <<>>)
    ELSE LET d == GetXmlData(<<Str(key), "/series/", Str(series_id), "/default/",
                               season, "/", number, "/en.xml">>, <<>>, resp) IN
         IF d.err # "" THEN Raise(H, d.err, <<d.get>>, <<>>)
         ELSE ParseEpisodeEntry(H, d.doc, <<d.get>>)

\* TvDB.updated
Updated(H, key, timeframe, resp) ==
    LET tf == IF timeframe = NoneS THEN DAY ELSE timeframe IN
    IF ApiKeyMissing(key) THEN Raise(H, "APIKeyRequiredError", <<>>, <<>>)
    ELSE IF tf \notin Timeframes THEN Raise(H, "TvDBException", <<>>, <<>>)
    ELSE LET d == GetCompressedMember(<<Str(key), "/updates/updates_", tf, ".zip">>,
                                      <<"updates_", tf, ".xml">>, resp)
             els == FindAllChildren(d.doc)
         IN  IF d.err # "" THEN Raise(H, d.err, <<d.get>>, <<>>)
             ELSE Out([H EXCEPT !.updates =
                           [i \in 1..Len(els) |-> NewUpdate(els[i], TRUE, TheClient)]],
                      "", <<d.get>>, <<>>, RList("updates", Len(els)))

\* TvDB.updated_since
UpdatedSince(H, timestamp, kind, resp) ==
    LET k == IF kind = NoneS THEN ALL ELSE kind IN
    IF k \notin Kinds THEN Raise(H, "TvDBException", <<>>, <<>>)
    ELSE LET d == GetXmlData(<<"Updates.php", "?type=", k, "&time=", Str(timestamp)>>,
                             <<>>, resp)
             series == FindAll(d.doc, "Series")
             episodes == FindAll(d.doc, "Episode")
             els == series \o episodes
         IN  IF d.err # "" THEN Raise(H, d.err, <<d.get>>, <<>>)
             ELSE Out([H EXCEPT !.updates =
                           [i \in 1..Len(els) |-> IdOnly(els[i], TheClient)]],
                      "", <<d.get>>, <<>>, RList("updates", Len(els)))

(* ---------------------------------------------------------------------- *)
(* tvdb.py: navigation from an entity                                      *)
(* ---------------------------------------------------------------------- *)
\* a call of a client operation made by an entity
ClientCall(op, id, extended) == [op |-> op, id |-> id, extended |-> extended]

\* (mutant) "not self._seasons": an empty map counts as not loaded
SeasonsNotLoaded_Falsy(s) == s.seasons = <<>> \/ s.seasons[1] = <<>>

\* "self._seasons is None" of Series.seasons
SeasonsNotLoaded(s) == s.seasons = <<>>

\* Series._load_episodes() with no data: the archive is fetched first.  A
\* Series with no client has no _client._get_series_full_data.
LoadEpisodesLazy(H, key, sref, resp) ==
    LET s == H.series[sref]
        d == GetSeriesFullData(key, s.id, resp)
    IN  IF s.client = NoRef THEN Raise(H, "AttributeError", <<>>, <<>>)
        ELSE IF d.err # "" THEN Raise(H, d.err, <<d.get>>, <<>>)
        ELSE LoadEpisodes(H, sref, d.doc, <<d.get>>)

\* Series.seasons
SeriesSeasons(H, key, sref, resp) ==
    IF SeasonsNotLoaded(H.series[sref])
    THEN LET l == LoadEpisodesLazy(H, key, sref, resp) IN
         IF l.err # "" THEN l
         ELSE Out(l.H, "", l.gets, <<>>, RSeasons(sref, l.H.series[sref].loads))
    ELSE Out(H, "", <<>>, <<>>, RSeasons(sref, H.series[sref].loads))

\* series.seasons[season] on a loaded Series: _seasons is a defaultdict(dict),
\* whose __getitem__ stores a new dict under a key that is missing
SeasonsLookup(H, sref, season) ==
    LET map == H.series[sref].seasons[1] IN
    IF season \in DOMAIN map THEN Out(H, "", <<>>, <<>>, RSeason(sref, season))
    ELSE Out([H EXCEPT !.series[sref].seasons = <<(season :> <<>>) @@ map>>],
             "", <<>>, <<>>, RSeason(sref, season))

\* the attributes a Series object has: those BaseTvDB.__init__,
\* BaseSeries.__init__ and Series.__init__ assign; no method assigns another
SeriesAttrs ==
    {"_client", "id", "imdb_id", "name", "overview", "language", "_first_aired",
     "network", "_banner", "runtime", "status", "_poster", "actors", "genre",
     "rating", "rating_count", "_seasons"}

\* Series.get_episode: "if self._episodes" reads an attribute before anything
\* else; the else branch asks the client
SeriesGetEpisode(H, key, sref, season, number, resp) ==
    LET s == H.series[sref]
        o == GetEpisode(H, key, s.id, season, number, resp)
    IN  IF "_episodes" \notin SeriesAttrs THEN Raise(H, "AttributeError", <<>>, <<>>)
        ELSE IF s.client = NoRef THEN Raise(H, "AttributeError", <<>>, <<>>)
        ELSE [o EXCEPT !.calls = <<ClientCall("get_episode", s.id, FALSE)>>]

\* Episode.series
EpisodeSeries(H, key, eref, resp) ==
    LET e == H.episodes[eref]
        calls == <<ClientCall("get_series_by_id", e.series_id, FALSE)>>
        o == GetSeriesById(H, key, e.series_id, FALSE, resp)
    IN  IF e.series # NoRef THEN Out(H, "", <<>>, <<>>, RSeries(e.series))
        ELSE IF e.client = NoRef THEN Raise(H, "AttributeError", <<>>, <<>>)
        ELSE IF o.err # "" THEN Raise(H, o.err, o.gets, calls)
        ELSE Out([o.H EXCEPT !.episodes[eref].series = o.result.ref],
                 "", o.gets, calls, o.result)

\* (mutant) get_series dropping its extended argument
SearchResultGetSeries_NotExtended(H, key, i, extended, resp) ==
    LET r == H.results[i]
        o == GetSeriesById(H, key, r.id, FALSE, resp)
    IN  IF r.client = NoRef THEN Raise(H, "APIClientNotAvailableError", <<>>, <<>>)
        ELSE [o EXCEPT !.calls = <<ClientCall("get_series_by_id", r.id, FALSE)>>]

\* SearchResult.get_series
SearchResultGetSeries(H, key, i, extended, resp) ==
    LET r == H.results[i]
        o == GetSeriesById(H, key, r.id, extended, resp)
    IN  IF r.client = NoRef THEN Raise(H, "APIClientNotAvailableError", <<>>, <<>>)
        ELSE [o EXCEPT !.calls = <<ClientCall("get_series_by_id", r.id, extended)>>]

\* (mutant) get_updated_item fetching a series for an episode entry
GetUpdatedItem_EpisodeAsSeries(H, key, i, extended, resp) ==
    LET u == H.updates[i] IN
    IF u.client = NoRef THEN Raise(H, "APIClientNotAvailableError", <<>>, <<>>)
    ELSE IF u.kind \in {SERIES, EPISODE}
    THEN [GetSeriesById(H, key, u.id, extended, resp)
             EXCEPT !.calls = <<ClientCall("get_series_by_id", u.id, extended)>>]
    ELSE IF u.kind = BANNER
    THEN IF "path" \notin u.attrs THEN Raise(H, "AttributeError", <<>>, <<>>)
         ELSE Out(H, "", <<>>, <<>>, RUrl(UrlJoin(BaseImageUrl, u.path)))
    ELSE Out(H, "", <<>>, <<>>, RNone)

\* Update.get_updated_item; an id-only Update has no path attribute
GetUpdatedItem(H, key, i, extended, resp) ==
    LET u == H.updates[i] IN
    IF u.client = NoRef THEN Raise(H, "APIClientNotAvailableError", <<>>, <<>>)
    ELSE IF u.kind = SERIES
    THEN [GetSeriesById(H, key, u.id, extended, resp)
             EXCEPT !.calls = <<ClientCall("get_series_by_id", u.id, extended)>>]
    ELSE IF u.kind = EPISODE
    THEN [GetEpisodeById(H, key, u.id, resp)
             EXCEPT !.calls = <<ClientCall("get_episode_by_id", u.id, FALSE)>>]
    ELSE IF u.kind = BANNER
    THEN IF "path" \notin u.attrs THEN Raise(H, "AttributeError", <<>>, <<>>)
         ELSE Out(H, "", <<>>, <<>>, RUrl(UrlJoin(BaseImageUrl, u.path)))
    ELSE Out(H, "", <<>>, <<>>, RNone)

(* ---------------------------------------------------------------------- *)
(* The state machine                                                       *)
(* ---------------------------------------------------------------------- *)
VARIABLES
    apiKey,   \* TvDB._api_key of the client
    heap,     \* the entities the caller holds
    call      \* the last operation: its name, target, arguments and outcome

vars == <<apiKey, heap, call>>

ApiKeys == {NoneS, "123456789"}
Titles == {"chuck"}
IdArgs == {"s1"}
NumberArgs == {"1"}
TimeframeArgs == {NoneS, MONTH, "anything"}
KindArgs == {NoneS, EPISODE, "anything"}
Timestamps == {"1234567890"}
\* the fragments an entity is built from directly
ResultFragments ==
    {DocSeries[1], [SeriesEl("s1", <<>>) EXCEPT !.poster = <<"posters/", "s1.jpg">>]}
SeriesFragments ==
    ResultFragments \cup {[SeriesEl("s1", <<>>) EXCEPT !.actors = <<ExampleText>>]}
\* fragments with every text of ListTexts as their list field, and with none
ListFragments ==
    {SeriesEl("s1", <<>>)}
      \cup {[SeriesEl("s1", <<>>) EXCEPT !.actors = <<t>>] : t \in ListTexts}
EpisodeFragments ==
    {DocEpisode[1], [EpisodeN(1) EXCEPT !.filename = <<"episodes/", "e1.jpg">>]}
UpdateFragments == {DocUpdates[1], DocUpdates[3], UpdateEl("Banner", NoneS, "s1", <<>>)}
\* the fragments of Updates.php, which lists series and episodes
IdFragments == {IdEl("Series", "s1"), IdEl("Episode", "e1")}
ClientArgs == {NoRef, TheClient}
\* the season numbers a caller looks up in a seasons map
SeasonArgs == {0, 1}

\* raw is the list field of the fragment a Series is built from
NoArgs == [id |-> NoneS, extended |-> FALSE, text |-> NoneS, season |-> NoneS,
           number |-> NoneS, raw |-> <<>>]

\* the record of an operation op on target (a heap index, 0 for the client)
Called(op, target, args, o) ==
    [op |-> op, target |-> target, args |-> args, err |-> o.err, gets |-> o.gets,
     calls |-> o.calls, result |-> o.result]

\* The caller holds one graph of entities.  An operation of the client, or a
\* constructor, that returns something starts a new graph ...
Root(H, o) == IF o.err = "" /\ o.result.kind # "None" THEN o.H ELSE H

\* ... Series.seasons and Episode.series grow the graph they are called in ...
Linked(H, o) == o.H

\* ... and the entity that get_series or get_updated_item returns is kept in
\* place of the list it was reached from.
Followed(H, o) ==
    IF o.err = "" /\ o.result.kind \in {"Series", "Episode"}
    THEN [o.H EXCEPT !.results = <<>>, !.updates = <<>>]
    ELSE H

Init ==
    /\ apiKey \in ApiKeys
    /\ heap = EmptyHeap
    /\ call = Called("init", 0, NoArgs, Out(EmptyHeap, "", <<>>, <<>>, RNone))

CallSearch ==
    \E t \in Titles, resp \in Responses :
        LET o == Search(EmptyHeap, t, resp) IN
        /\ heap' = Root(heap, o)
        /\ call' = Called("search", 0, [NoArgs EXCEPT !.text = t], o)
        /\ UNCHANGED apiKey

CallGetSeriesById ==
    \E id \in IdArgs, ext \in BOOLEAN, resp \in Responses :
        LET o == GetSeriesById(EmptyHeap, apiKey, id, ext, resp) IN
        /\ heap' = Root(heap, o)
        /\ call' = Called("get_series_by_id", 0, [NoArgs EXCEPT !.id = id, !.extended = ext], o)
        /\ UNCHANGED apiKey

CallGetEpisodeById ==
    \E id \in IdArgs, resp \in Responses :
        LET o == GetEpisodeById(EmptyHeap, apiKey, id, resp) IN
        /\ heap' = Root(heap, o)
        /\ call' = Called("get_episode_by_id", 0, [NoArgs EXCEPT !.id = id], o)
        /\ UNCHANGED apiKey

CallGetEpisode ==
    \E id \in IdArgs, s \in NumberArgs, n \in NumberArgs, resp \in Responses :
        LET o == GetEpisode(EmptyHeap, apiKey, id, s, n, resp) IN
        /\ heap' = Root(heap, o)
        /\ call' = Called("get_episode", 0, [NoArgs EXCEPT !.id = id, !.season = s, !.number = n], o)
        /\ UNCHANGED apiKey

CallUpdated ==
    \E tf \in TimeframeArgs, resp \in Responses :
        LET o == Updated(EmptyHeap, apiKey, tf, resp) IN
        /\ heap' = Root(heap, o)
        /\ call' = Called("updated", 0, [NoArgs EXCEPT !.text = tf], o)
        /\ UNCHANGED apiKey

CallUpdatedSince ==
    \E ts \in Timestamps, k \in KindArgs, resp \in Responses :
        LET o == UpdatedSince(EmptyHeap, ts, k, resp) IN
        /\ heap' = Root(heap, o)
        /\ call' = Called("updated_since", 0, [NoArgs EXCEPT !.id = ts, !.text = k], o)
        /\ UNCHANGED apiKey

AccessSeasons ==
    \E r \in 1..Len(heap.series), resp \in Responses :
        LET o == SeriesSeasons(heap, apiKey, r, resp) IN
        /\ heap' = Linked(heap, o)
        /\ call' = Called("seasons", r, NoArgs, o)
        /\ UNCHANGED apiKey

AccessEpisodeSeries ==
    \E r \in 1..Len(heap.episodes), resp \in Responses :
        LET o == EpisodeSeries(heap, apiKey, r, resp) IN
        /\ heap' = Linked(heap, o)
        /\ call' = Called("series", r, NoArgs, o)
        /\ UNCHANGED apiKey

CallGetSeries ==
    \E i \in 1..Len(heap.results), ext \in BOOLEAN, resp \in Responses :
        LET o == SearchResultGetSeries(heap, apiKey, i, ext, resp) IN
        /\ heap' = Followed(heap, o)
        /\ call' = Called("get_series", i, [NoArgs EXCEPT !.extended = ext], o)
        /\ UNCHANGED apiKey

CallGetUpdatedItem ==
    \E i \in 1..Len(heap.updates), ext \in BOOLEAN, resp \in Responses :
        LET o == GetUpdatedItem(heap, apiKey, i, ext, resp) IN
        /\ heap' = Followed(heap, o)
        /\ call' = Called("get_updated_item", i, [NoArgs EXCEPT !.extended = ext], o)
        /\ UNCHANGED apiKey

\* series.get_episode(season, number) by the caller
CallSeriesGetEpisode ==
    \E r \in 1..Len(heap.series), s \in NumberArgs, n \in NumberArgs, resp \in Responses :
        LET o == SeriesGetEpisode(heap, apiKey, r, s, n, resp) IN
        /\ heap' = Linked(heap, o)
        /\ call' = Called("Series.get_episode", r,
                          [NoArgs EXCEPT !.season = s, !.number = n], o)
        /\ UNCHANGED apiKey

\* series.seasons[season] by the caller, on the map of a loaded Series
LookupSeason ==
    \E r \in 1..Len(heap.series), season \in SeasonArgs :
        /\ ~SeasonsNotLoaded(heap.series[r])
        /\ LET o == SeasonsLookup(heap, r, season) IN
           /\ heap' = Linked(heap, o)
           /\ call' = Called("seasons[]", r, NoArgs, o)
           /\ UNCHANGED apiKey

\* the banner property read on a Series or on a SearchResult the caller holds
AccessBanner ==
    \/ \E r \in 1..Len(heap.series) :
           LET o == Out(heap, "", <<>>, <<>>, BaseSeriesBanner(heap.series[r])) IN
           /\ call' = Called("banner", r, [NoArgs EXCEPT !.text = "Series"], o)
           /\ UNCHANGED <<apiKey, heap>>
    \/ \E i \in 1..Len(heap.results) :
           LET o == Out(heap, "", <<>>, <<>>, BaseSeriesBanner(heap.results[i])) IN
           /\ call' = Called("banner", i, [NoArgs EXCEPT !.text = "SearchResult"], o)
           /\ UNCHANGED <<apiKey, heap>>

\* the poster property read on a Series
AccessPoster ==
    \E r \in 1..Len(heap.series) :
        LET o == Out(heap, "", <<>>, <<>>, SeriesPoster(heap.series[r])) IN
        /\ call' = Called("poster", r, NoArgs, o)
        /\ UNCHANGED <<apiKey, heap>>

\* the image property read on an Episode
AccessImage ==
    \E r \in 1..Len(heap.episodes) :
        LET o == Out(heap, "", <<>>, <<>>, EpisodeImage(heap.episodes[r])) IN
        /\ call' = Called("image", r, NoArgs, o)
        /\ UNCHANGED <<apiKey, heap>>

\* SearchResult(fragment, client=c) by the caller
ConstructSearchResult ==
    \E el \in ResultFragments, c \in ClientArgs :
        LET o == Out([EmptyHeap EXCEPT !.results = <<NewSearchResult(el, c)>>],
                 "", <<>>, <<>>, RList("results", 1)) IN
        /\ heap' = Root(heap, o)
        /\ call' = Called("SearchResult", 0, NoArgs, o)
        /\ UNCHANGED apiKey

\* Series(fragment, client=c) by the caller
ConstructSeries ==
    \E el \in SeriesFragments, c \in ClientArgs :
        LET o == Out([EmptyHeap EXCEPT !.series = <<NewSeries(el, c)>>],
                 "", <<>>, <<>>, RSeries(1)) IN
        /\ heap' = Root(heap, o)
        /\ call' = Called("Series", 0, [NoArgs EXCEPT !.raw = el.actors], o)
        /\ UNCHANGED apiKey

\* Episode(fragment, client=c) by the caller
ConstructEpisode ==
    \E el \in EpisodeFragments, c \in ClientArgs :
        LET o == IF EpisodeFails(el) THEN Raise(EmptyHeap, "ValueError", <<>>, <<>>)
                 ELSE Out([EmptyHeap EXCEPT !.episodes = <<NewEpisode(el, NoRef, c)>>],
                 "", <<>>, <<>>, REpisode(1)) IN
        /\ heap' = Root(heap, o)
        /\ call' = Called("Episode", 0, NoArgs, o)
        /\ UNCHANGED apiKey

\* Update(fragment, client=c) by the caller
ConstructUpdate ==
    \E el \in UpdateFragments, c \in ClientArgs :
        LET o == Out([EmptyHeap EXCEPT !.updates = <<NewUpdate(el, TRUE, c)>>],
                 "", <<>>, <<>>, RList("updates", 1)) IN
        /\ heap' = Root(heap, o)
        /\ call' = Called("Update", 0, NoArgs, o)
        /\ UNCHANGED apiKey

\* Update.id_only(fragment, client=c) by the caller
ConstructIdOnly ==
    \E el \in IdFragments, c \in ClientArgs :
        LET o == Out([EmptyHeap EXCEPT !.updates = <<IdOnly(el, c)>>],
                 "", <<>>, <<>>, RList("updates", 1)) IN
        /\ heap' = Root(heap, o)
        /\ call' = Called("Update.id_only", 0, NoArgs, o)
        /\ UNCHANGED apiKey

Next ==
    \/ CallSearch
    \/ CallGetSeriesById
    \/ CallGetEpisodeById
    \/ CallGetEpisode
    \/ CallUpdated
    \/ CallUpdatedSince
    \/ AccessSeasons
    \/ AccessEpisodeSeries
    \/ CallGetSeries
    \/ CallGetUpdatedItem
    \/ CallSeriesGetEpisode
    \/ LookupSeason
    \/ AccessBanner
    \/ AccessPoster
    \/ AccessImage
    \/ ConstructSearchResult
    \/ ConstructSeries
    \/ ConstructEpisode
    \/ ConstructUpdate
    \/ ConstructIdOnly

Spec == Init /\ [][Next]_vars

\* The list extractor on its own: Series(fragment, client=c) for every text
\* of the list field
ConstructSeriesOfList ==
    \E el \in ListFragments, c \in ClientArgs :
        LET o == Out([EmptyHeap EXCEPT !.series = <<NewSeries(el, c)>>],
                 "", <<>>, <<>>, RSeries(1)) IN
        /\ heap' = Root(heap, o)
        /\ call' = Called("Series", 0, [NoArgs EXCEPT !.raw = el.actors], o)
        /\ UNCHANGED apiKey

ListNext == ConstructSeriesOfList

ListSpec == Init /\ [][ListNext]_vars

(* ---------------------------------------------------------------------- *)
(* Properties                                                              *)
(* ---------------------------------------------------------------------- *)
\* the network requests of an operation: what its _get calls sent, in order
RECURSIVE Requests(_)
Requests(gets) == IF gets = <<>> THEN <<>> ELSE Head(gets).sent \o Requests(Tail(gets))

KeyedOps == {"get_series_by_id", "get_episode_by_id", "get_episode", "updated"}

\* C1: on a client with no API key, get_series_by_id, get_episode_by_id,
\* get_episode and updated fail with APIKeyRequiredError, whatever their
\* arguments, and send no request.
C1_NoKeyNoRequest ==
    (apiKey = NoneS /\ call.op \in KeyedOps)
        => (call.err = "APIKeyRequiredError" /\ Requests(call.gets) = <<>>)

\* C1's case: updated, with an invalid timeframe, on a client with no key
C1_Witness ==
    /\ apiKey = NoneS
    /\ call.op = "updated"
    /\ call.args.text = "anything"
    /\ call.err = "APIKeyRequiredError"

\* the argument is given (not None) and is none of the allowed values
InvalidTimeframe == call.op = "updated" /\ call.args.text \notin {DAY, WEEK, MONTH, ALL, NoneS}
InvalidKind == call.op = "updated_since" /\ call.args.text \notin {SERIES, EPISODE, ALL, NoneS}

\* C2 as claimed: updated with an invalid timeframe and updated_since with an
\* invalid kind fail with the invalid-argument error (TvDBException) and send
\* no request.
C2_AsClaimed ==
    (InvalidTimeframe \/ InvalidKind)
        => (call.err = "TvDBException" /\ Requests(call.gets) = <<>>)

\* C2 amended: updated with an invalid timeframe on a client that holds an
\* API key, and updated_since with an invalid kind on any client, fail with
\* TvDBException and send no request; on a client with no key updated fails
\* with APIKeyRequiredError first, and also sends nothing.
C2_InvalidArgument ==
    /\ ((InvalidTimeframe /\ apiKey # NoneS) \/ InvalidKind)
           => (call.err = "TvDBException" /\ Requests(call.gets) = <<>>)
    /\ (InvalidTimeframe /\ apiKey = NoneS)
           => (call.err = "APIKeyRequiredError" /\ Requests(call.gets) = <<>>)

\* C2's case: updated("anything") on a client with a key
C2_Witness ==
    /\ apiKey # NoneS
    /\ InvalidTimeframe
    /\ call.err = "TvDBException"

\* the header is there and its text contains the expected content type
HeaderMatches(g) ==
    g.resp.ctype.present /\ Contains(g.expect, g.resp.ctype.value)

\* C3 as claimed: every _get sends exactly one GET and either fails with
\* APIResponseError, when the status is no success or the content-type header
\* (present or missing) does not contain the expected type, or returns.
C3_AsClaimed ==
    \A i \in 1..Len(call.gets) :
        LET g == call.gets[i] IN
        /\ Len(g.sent) = 1
        /\ g.err \in {"", "APIResponseError"}
        /\ (g.err = "APIResponseError")
              <=> (~ResponseOk(g.resp.status) \/ ~HeaderMatches(g))

\* the operation made one _get call, which returned, and the body was decoded
\* as the operation decodes it: as XML, or as the archive's member en.xml
Decoded(c) ==
    /\ Len(c.gets) = 1
    /\ c.gets[1].err = ""
    /\ IF c.op = "get_series_by_id" /\ c.args.extended
       THEN c.gets[1].resp.body.fmt = "zip" /\ c.gets[1].resp.body.member = <<"en.xml">>
       ELSE c.gets[1].resp.body.fmt = "xml"
\* the tags of the decoded document's elements
Tags(c) == {c.gets[1].resp.body.doc[i].tag : i \in 1..Len(c.gets[1].resp.body.doc)}

\* C4: when the response was fetched and parsed and holds no matching element,
\* get_series_by_id (both modes), get_episode_by_id and get_episode return
\* None and search returns an empty list; none raises, each sent one request.
C4_NoMatchIsNoError ==
    /\ (call.op = "get_series_by_id" /\ Decoded(call) /\ "Series" \notin Tags(call))
           => (call.err = "" /\ call.result = RNone /\ Len(Requests(call.gets)) = 1)
    /\ (call.op \in {"get_episode_by_id", "get_episode"} /\ Decoded(call)
            /\ "Episode" \notin Tags(call))
           => (call.err = "" /\ call.result = RNone /\ Len(Requests(call.gets)) = 1)
    /\ (call.op = "search" /\ Decoded(call) /\ "Series" \notin Tags(call))
           => (call.err = "" /\ call.result = RList("results", 0)
                 /\ heap.results = <<>> /\ Len(Requests(call.gets)) = 1)

\* C4's case: get_series_by_id in full mode on an archive with no Series
C4_Witness ==
    /\ call.op = "get_series_by_id"
    /\ call.args.extended
    /\ Decoded(call)
    /\ "Series" \notin Tags(call)
    /\ call.result = RNone

\* C5: once a Series' _seasons is set (also to an empty map), an access to
\* seasons returns that same map, sends no request and leaves the Series as
\* it is; no Series gets a second map.
C5_SeasonsLoadedOnce ==
    [][\A r \in 1..Len(heap.series) :
          /\ (heap.series[r].seasons # <<>> /\ call'.op = "seasons" /\ call'.target = r)
                => /\ call'.err = ""
                   /\ Requests(call'.gets) = <<>>
                   /\ call'.result = RSeasons(r, heap.series[r].loads)
                   /\ heap' = heap
          /\ heap.series[r].loads <= 1]_vars

\* C5's case: an access to the seasons of a Series whose archive held no
\* Episode, answered with no request
C5_Witness ==
    /\ call.op = "seasons"
    /\ call.err = ""
    /\ call.gets = <<>>
    /\ heap.series[call.target].seasons = << <<>> >>
    /\ heap.series[call.target].client = TheClient

\* C6 as claimed, for a first access that returned: after an access to
\* Episode.series that called get_series_by_id, the next access to it calls
\* nothing and sends nothing.
C6_AsClaimed ==
    [][\A r \in 1..Len(heap.episodes) :
          (/\ call.op = "series" /\ call.target = r
           /\ call.err = "" /\ call.calls # <<>>
           /\ call'.op = "series" /\ call'.target = r)
              => (call'.calls = <<>> /\ Requests(call'.gets) = <<>>)]_vars

\* the references held in a seasons map
EpisodesOf(map) == {map[s][n] : <<s, n>> \in UNION {{s} \X DOMAIN map[s] : s \in DOMAIN map}}

\* get_series_by_id(id, extended=True) has just returned a Series
FullSeriesReturned(c) ==
    c.op = "get_series_by_id" /\ c.args.extended /\ c.err = "" /\ c.result.kind = "Series"

\* C7: get_series_by_id in full mode sends one request, for the archive, and
\* the Series it returns has its seasons set, with an Episode under the
\* season and number of every Episode element of the archive, each Episode of
\* the map referring back to that Series; an access to the
\* seasons of a Series that is loaded, or to the series of an Episode of its
\* map, sends nothing and gives the map, or that very Series.
C7_FullSeries ==
    [][/\ FullSeriesReturned(call') =>
            LET r == call'.result.ref
                doc == call'.gets[1].resp.body.doc IN
            /\ Len(Requests(call'.gets)) = 1
            /\ Requests(call'.gets)[1].url =
                   <<"http://thetvdb.com", "/api/", "123456789", "/series/",
                     call'.args.id, "/all/en.zip">>
            /\ heap'.series[r].seasons # <<>>
            /\ \A i \in 1..Len(FindAll(doc, "Episode")) :
                   LET el == FindAll(doc, "Episode")[i]
                       map == heap'.series[r].seasons[1] IN
                   /\ IntTable[el.season] \in DOMAIN map
                   /\ IntTable[el.number] \in DOMAIN map[IntTable[el.season]]
                   /\ LET e == heap'.episodes[map[IntTable[el.season]][IntTable[el.number]]]
                      IN e.season = IntTable[el.season] /\ e.number = IntTable[el.number]
            /\ \A e \in EpisodesOf(heap'.series[r].seasons[1]) :
                   heap'.episodes[e].series = r
       /\ \A r \in 1..Len(heap.series) :
            heap.series[r].seasons # <<>> =>
              /\ (call'.op = "seasons" /\ call'.target = r)
                    => (Requests(call'.gets) = <<>> /\ call'.err = ""
                          /\ call'.result = RSeasons(r, heap.series[r].loads))
              /\ (call'.op = "series" /\ call'.target \in EpisodesOf(heap.series[r].seasons[1]))
                    => (Requests(call'.gets) = <<>> /\ call'.err = ""
                          /\ call'.result = RSeries(r))]_vars

\* C7's case: the full mode returned a Series with episodes in its map
C7_Witness ==
    /\ FullSeriesReturned(call)
    /\ EpisodesOf(heap.series[call.result.ref].seasons[1]) # {}

\* C8: SearchResult.get_series with no client fails with
\* APIClientNotAvailableError and sends nothing; with a client it calls the
\* client's get_series_by_id with the result's id and the caller's extended,
\* and raises or returns what that call does.
C8_GetSeriesDelegates ==
    [][call'.op = "get_series" =>
          LET r == heap.results[call'.target] IN
          IF r.client = NoRef
          THEN /\ call'.err = "APIClientNotAvailableError"
               /\ Requests(call'.gets) = <<>>
               /\ call'.calls = <<>>
          ELSE /\ call'.calls = <<ClientCall("get_series_by_id", r.id, call'.args.extended)>>
               /\ \E resp \in Responses :
                     LET o == GetSeriesById(EmptyHeap, apiKey, r.id,
                                            call'.args.extended, resp) IN
                     /\ call'.err = o.err
                     /\ call'.gets = o.gets
                     /\ call'.result = o.result]_vars

\* C8's case: get_series(extended=True) on a result of search returned a Series
C8_Witness ==
    /\ call.op = "get_series"
    /\ call.args.extended
    /\ call.result.kind = "Series"

\* C9: get_updated_item on an Update with a client: a series entry calls
\* get_series_by_id once with the entry's id, an episode entry calls
\* get_episode_by_id once with the entry's id, a banner entry calls neither,
\* sends nothing and returns the base image URL joined with its path.
C9_GetUpdatedItemDispatch ==
    [][call'.op = "get_updated_item" =>
          LET u == heap.updates[call'.target] IN
          u.client # NoRef =>
            /\ u.kind = "series" =>
                 call'.calls = <<ClientCall("get_series_by_id", u.id, call'.args.extended)>>
            /\ u.kind = "episode" =>
                 call'.calls = <<ClientCall("get_episode_by_id", u.id, FALSE)>>
            /\ u.kind = "banner" =>
                 /\ call'.calls = <<>>
                 /\ Requests(call'.gets) = <<>>
                 /\ call'.err = ""
                 /\ call'.result = RUrl(UrlJoin(BaseImageUrl, u.path))]_vars

\* C9's case: a banner entry gave its URL
C9_Witness ==
    /\ call.op = "get_updated_item"
    /\ call.gets = <<>>
    /\ call.result = RUrl(<<"http://thetvdb.com", "/banners/", "posters/", "s1.jpg">>)

\* C10: updated_since with a valid kind returns one id-only Update per Series
\* element, then one per Episode element, in document order inside each
\* group; the id is the element's text, the kind its tag in lower case, and
\* no metadata attribute exists.
C10_UpdatedSinceList ==
    (call.op = "updated_since" /\ call.err = "") =>
        LET doc == call.gets[1].resp.body.doc
            series == FindAll(doc, "Series")
            episodes == FindAll(doc, "Episode")
            n == Len(series) IN
        /\ call.args.text \in {SERIES, EPISODE, ALL, NoneS}
        /\ call.result = RList("updates", n + Len(episodes))
        /\ Len(heap.updates) = n + Len(episodes)
        /\ \A i \in 1..n :
              heap.updates[i].id = series[i].text /\ heap.updates[i].kind = "series"
        /\ \A i \in 1..Len(episodes) :
              heap.updates[n + i].id = episodes[i].text
                 /\ heap.updates[n + i].kind = "episode"
        /\ \A i \in 1..Len(heap.updates) : heap.updates[i].attrs = {"id", "kind"}

\* C10's case: an answer with episodes before series
C10_Witness ==
    /\ call.op = "updated_since"
    /\ call.err = ""
    /\ Len(heap.updates) >= 4
    /\ call.gets[1].resp.body.doc[1].tag = "Episode"
    /\ heap.updates[1].kind = "series"

\* C11 as claimed: an access to the seasons of a Series that is not loaded,
\* or to the series of an Episode with no back-reference, on an entity with
\* no client fails with APIClientNotAvailableError, sends no request and
\* leaves the entity as it was.
C11_AsClaimed ==
    [][/\ (/\ call'.op = "seasons"
           /\ heap.series[call'.target].client = NoRef
           /\ SeasonsNotLoaded(heap.series[call'.target]))
              => /\ call'.err = "APIClientNotAvailableError"
                 /\ Requests(call'.gets) = <<>>
                 /\ heap' = heap
       /\ (/\ call'.op = "series"
           /\ heap.episodes[call'.target].client = NoRef
           /\ heap.episodes[call'.target].series = NoRef)
              => /\ call'.err = "APIClientNotAvailableError"
                 /\ Requests(call'.gets) = <<>>
                 /\ heap' = heap]_vars

\* C12 as claimed: get_updated_item on an Update with no client fails with
\* APIClientNotAvailableError when the entry is a series or an episode, and
\* returns the base image URL joined with the path when it is a banner (one
\* that has a path).
C12_AsClaimed ==
    [][(call'.op = "get_updated_item" /\ heap.updates[call'.target].client = NoRef) =>
          LET u == heap.updates[call'.target] IN
          /\ u.kind \in {SERIES, EPISODE} =>
                 (call'.err = "APIClientNotAvailableError" /\ call'.calls = <<>>)
          /\ (u.kind = BANNER /\ u.path # <<>>) =>
                 /\ call'.err = ""
                 /\ call'.result = RUrl(UrlJoin(BaseImageUrl, u.path))]_vars

\* what the specification asks of a derived URL: the base image URL followed
\* by the relative path, or None when there is no path
DerivedUrl(path) == IF path = <<>> THEN RNone ELSE RUrl(BaseImageUrl \o path)

\* C13 as claimed: the banner of a Series or SearchResult, the poster of a
\* Series, the image of an Episode and the item of a banner Update (with a
\* client) are the base image URL joined with the path when there is a path,
\* and None when there is none.
C13_AsClaimed ==
    [][/\ (call'.op = "banner" /\ call'.args.text = "Series")
              => call'.result = DerivedUrl(heap.series[call'.target].banner)
       /\ (call'.op = "banner" /\ call'.args.text = "SearchResult")
              => call'.result = DerivedUrl(heap.results[call'.target].banner)
       /\ call'.op = "poster"
              => call'.result = DerivedUrl(heap.series[call'.target].poster)
       /\ call'.op = "image"
              => call'.result = DerivedUrl(heap.episodes[call'.target].image)
       /\ (/\ call'.op = "get_updated_item"
           /\ heap.updates[call'.target].client # NoRef
           /\ heap.updates[call'.target].kind = BANNER
           /\ "path" \in heap.updates[call'.target].attrs)
              => (call'.err = ""
                    /\ call'.result = DerivedUrl(heap.updates[call'.target].path))]_vars

\* the part of C13 that the code keeps: the three properties
C13_Properties ==
    [][/\ (call'.op = "banner" /\ call'.args.text = "Series")
              => call'.result = DerivedUrl(heap.series[call'.target].banner)
       /\ (call'.op = "banner" /\ call'.args.text = "SearchResult")
              => call'.result = DerivedUrl(heap.results[call'.target].banner)
       /\ call'.op = "poster"
              => call'.result = DerivedUrl(heap.series[call'.target].poster)
       /\ call'.op = "image"
              => call'.result = DerivedUrl(heap.episodes[call'.target].image)]_vars

\* the text without one leading and one trailing delimiter, where there is one
StripDelimiters(t) ==
    LET a == IF t # <<>> /\ Head(t) = "|" THEN Tail(t) ELSE t IN
    IF a # <<>> /\ a[Len(a)] = "|" THEN SubSeq(a, 1, Len(a) - 1) ELSE a

\* the characters of a text that are no delimiters, and those of a list's items
RECURSIVE Letters(_)
Letters(t) ==
    IF t = <<>> THEN <<>>
    ELSE (IF Head(t) = "|" THEN <<>> ELSE <<Head(t)>>) \o Letters(Tail(t))
RECURSIVE ItemLetters(_)
ItemLetters(items) ==
    IF items = <<>> THEN <<>> ELSE Head(items) \o ItemLetters(Tail(items))

\* C14 as claimed: the actors of a Series built from a fragment are None when
\* the field is absent; for every text they are the pieces, in order, of the
\* text without one leading and one trailing '|', and no character that is
\* not a delimiter is lost.
C14_AsClaimed ==
    (call.op = "Series" /\ call.err = "") =>
        LET actors == heap.series[call.result.ref].actors IN
        IF call.args.raw = <<>> THEN actors = <<>>
        ELSE /\ actors = <<Split(StripDelimiters(call.args.raw[1]))>>
             /\ ItemLetters(actors[1]) = Letters(call.args.raw[1])

\* the part of C14 that the code keeps: a text that begins and ends with a
\* delimiter (two of them at least) gives its pieces, nothing lost
C14_Delimited ==
    (/\ call.op = "Series" /\ call.err = "" /\ call.args.raw # <<>>
     /\ Len(call.args.raw[1]) >= 2
     /\ Head(call.args.raw[1]) = "|"
     /\ call.args.raw[1][Len(call.args.raw[1])] = "|") =>
        LET actors == heap.series[call.result.ref].actors IN
        /\ actors = <<Split(StripDelimiters(call.args.raw[1]))>>
        /\ ItemLetters(actors[1]) = Letters(call.args.raw[1])
        /\ call.args.raw[1] = ExampleText => actors = << << <<"A">>, <<"B">>, <<"C">> >> >>

\* the paths that hold no API key: the search and the updates-since endpoints
KeylessPaths == {"GetSeries.php", "Updates.php"}

\* C15 as claimed: while the client holds no API key, no operation, of the
\* client or of an entity attached to it, sends a request to a path that
\* embeds the key (a series, episode or updates path).
C15_AsClaimed ==
    apiKey = NoneS =>
        \A i \in 1..Len(Requests(call.gets)) :
            Requests(call.gets)[i].url[Len(BaseApiUrl) + 1] \in KeylessPaths

\* the season numbers of the episodes a seasons map holds
SeasonsOfEpisodes(H, map) == {H.episodes[e].season : e \in EpisodesOf(map)}

\* C16 as claimed: a lookup in the seasons map of a loaded Series, also of a
\* season with no episodes, leaves the season keys and every season's
\* episode keys as they were, and the season keys are still the season
\* numbers of the loaded episodes.
C16_AsClaimed ==
    [][call'.op = "seasons[]" =>
          LET old == heap.series[call'.target].seasons[1]
              new == heap'.series[call'.target].seasons[1] IN
          /\ DOMAIN new = DOMAIN old
          /\ \A season \in DOMAIN old : DOMAIN new[season] = DOMAIN old[season]
          /\ DOMAIN new = SeasonsOfEpisodes(heap', new)]_vars

\* the Episode a seasons map holds under a season and a number, or None
StoredEpisode(map, season, number) ==
    IF season \in DOMAIN map /\ number \in DOMAIN map[season]
    THEN REpisode(map[season][number]) ELSE RNone

\* C17 as claimed: Series.get_episode on a Series with a client that holds a
\* key, when the seasons are loaded, returns the Episode of the map under
\* that season and number (None if there is none) and sends nothing;
\* otherwise it raises or returns what the client's get_episode does for the
\* series id, the season and the number.
C17_AsClaimed ==
    [][(/\ call'.op = "Series.get_episode"
        /\ heap.series[call'.target].client # NoRef
        /\ apiKey # NoneS) =>
          LET s == heap.series[call'.target] IN
          IF ~SeasonsNotLoaded(s)
          THEN /\ call'.err = ""
               /\ Requests(call'.gets) = <<>>
               /\ call'.result = StoredEpisode(s.seasons[1], IntTable[call'.args.season],
                                               IntTable[call'.args.number])
          ELSE \E resp \in Responses :
                  LET o == GetEpisode(EmptyHeap, apiKey, s.id, call'.args.season,
                                      call'.args.number, resp) IN
                  /\ call'.err = o.err
                  /\ call'.gets = o.gets
                  /\ call'.result.kind = o.result.kind]_vars

====
